---- MODULE Spec2Model ----
(***************************************************************************)
(* State-machine model of the student progression / scoring flow of the    *)
(* scavenger-hunt application (src/app.py): the Hunt / Question /          *)
(* Submission tables, the per-participant Flask session and the request    *)
(* handlers that read and write them.                                      *)
(*                                                                         *)
(* Conventions                                                             *)
(*  - a qr_token is a natural number >= 1 (uuid4 strings are fresh and     *)
(*    unique; the counter next_token issues them); 0 stands for an absent  *)
(*    or empty token in a request.                                         *)
(*  - a text value (answer, question text) is a sequence of one-character  *)
(*    strings, so that lower() and strip() are computed, not assumed.      *)
(*  - a Python dict is a function whose DOMAIN is its key set.             *)
(*  - the teacher is logged in and owns the hunt (the ownership checks of  *)
(*    the teacher routes are not part of the progression flow).            *)
(*  - pending[p] is the token of the submit-image request of participant  *)
(*    p that has committed the question's image_filename and has not yet   *)
(*    updated p's progress; 0 when p has no such request in flight.        *)
(*  - the session is the mutable dict the handlers see; every handler      *)
(*    that mutates nested progress also assigns a top-level key or sets    *)
(*    session.modified, or mutates nothing that is observable later.       *)
(***************************************************************************)
EXTENDS Integers, Sequences, FiniteSets, TLC

VARIABLES hunts, questions, next_hunt_id, next_token, sessions, submissions, resp,
          pending

vars == <<hunts, questions, next_hunt_id, next_token, sessions, submissions, resp,
          pending>>

(***************************************************************************)
(* Bounds of the model.                                                    *)
(***************************************************************************)
MaxEntries == 3       \* length of the question list of one create request
MaxAttempts == 2      \* counted attempts per token that Spec follows
MaxSubmissions == 2   \* Submission rows the model follows
MaxPrior == 4         \* wrong attempts that precede the play of SpecPoints
MaxPoints == 12       \* SpecPoints: point values are -MaxPoints..MaxPoints

HuntIds == {1}                \* ids of the hunts ever created
Participants == {"s1", "s2"}  \* browser sessions
Tokens == {1, 2}              \* tokens ever issued (questions ever created)
TokenInputs == {0} \cup Tokens

(***************************************************************************)
(* Python values.                                                          *)
(***************************************************************************)
None == "<None>"
NoAnswer == <<"<None>">>          \* the JSON body has no 'answer' key
EmptyDict == [k \in {} |-> 0]

Put(d, k, v) == [x \in (DOMAIN d) \cup {k} |-> IF x = k THEN v ELSE d[x]]

Get(d, k, default) == IF k \in DOMAIN d THEN d[k] ELSE default

\* str.lower() on one character
LowerChar(c) ==
  CASE c = "A" -> "a"
    [] c = "B" -> "b"
    [] c = "C" -> "c"
    [] OTHER -> c

\* str.lower()
Lower(s) == [i \in 1..Len(s) |-> LowerChar(s[i])]

IsSpace(c) == c = " "

RECURSIVE LStrip(_)
LStrip(s) == IF s # << >> /\ IsSpace(Head(s)) THEN LStrip(Tail(s)) ELSE s

RECURSIVE RStrip(_)
RStrip(s) ==
  IF s # << >> /\ IsSpace(s[Len(s)]) THEN RStrip(SubSeq(s, 1, Len(s) - 1)) ELSE s

\* str.strip()
Strip(s) == RStrip(LStrip(s))

IntTrunc_Floor(num, den) == num \div den

\* int(x) of the float product num/den: truncation toward zero.  (For the
\* multipliers 1.0, 0.5, 0.1, 0.0 and |points| <= 2000 the float product
\* truncates to the same integer as the exact quotient.)
IntTrunc(num, den) ==
  IF num >= 0 THEN num \div den ELSE -((-num) \div den)

(***************************************************************************)
(* Request inputs.                                                         *)
(***************************************************************************)
\* question forms an author can post (add_question, edit_question); the
\* handlers store the form fields as posted
FormInputs ==
  { [question_type |-> "multiple-choice", correct_answer |-> <<"b", " ">>,
     hint |-> "look up", next_location_hint |-> "", points |-> -5] }

\* question entries of the JSON body of create_hunt_with_questions; the last
\* one has a blank text
EntryInputs ==
  { [type |-> "text", text |-> <<"q">>, answer |-> <<" ", "A">>,
     nextLocationHint |-> "gym", points |-> 10],
    [type |-> "image", text |-> <<"q">>, answer |-> <<"x">>,
     nextLocationHint |-> "", points |-> 25],
    [type |-> "text", text |-> <<" ">>, answer |-> <<"a">>,
     nextLocationHint |-> "", points |-> 10] }

\* raw answers a participant can post; NoAnswer is a body without 'answer'
AnswerInputs == { <<"a", " ">>, <<"B">> }

\* display names a participant can post ('' is the default of data.get)
NameInputs == { "", "Ann" }

\* the uploaded file of a submit-image request
FileInputs == { "missing", "too_large", "ok" }

\* entry lists of length 0..n
RECURSIVE EntryLists(_)
EntryLists(n) ==
  IF n = 0 THEN { << >> }
  ELSE LET shorter == EntryLists(n - 1)
       IN shorter \cup { Append(l, e) : l \in { x \in shorter : Len(x) = n - 1 },
                                         e \in EntryInputs }

(***************************************************************************)
(* Rows and queries.                                                       *)
(***************************************************************************)
\* Question.query.filter_by(qr_token=qr_token).first(); qr_token is unique
QuestionByToken(qr_token) == qr_token \in DOMAIN questions

\* the questions of a hunt (hunt.questions, Question.query.filter_by(hunt_id))
HuntQuestions(hunt_id) == { t \in DOMAIN questions : questions[t].hunt_id = hunt_id }

\* Question.query.filter_by(hunt_id, question_order=order + 1)
NextQuestions(q) ==
  { t \in DOMAIN questions :
      /\ questions[t].hunt_id = q.hunt_id
      /\ questions[t].question_order = q.question_order + 1 }

RECURSIVE SumPoints(_)
\* sum([q.points for q in hunt.questions])
SumPoints(S) ==
  IF S = {} THEN 0
  ELSE LET t == CHOOSE x \in S : TRUE
       IN questions[t].points + SumPoints(S \ {t})

\* order of the last question of the hunt, 0 when it has none
LastOrder(hunt_id) ==
  IF HuntQuestions(hunt_id) = {} THEN 0
  ELSE LET t == CHOOSE x \in HuntQuestions(hunt_id) :
                  \A y \in HuntQuestions(hunt_id) :
                     questions[y].question_order <= questions[x].question_order
       IN questions[t].question_order

\* the response of a submission handler (status, JSON fields) and whether the
\* call reached the Submission write and committed it; fields a handler does
\* not return keep the values below.  op is "submit_answer" or "submit_image"
\* for a 200 result, "rejected" for a 400 or 404 result, and "idle" for the
\* pages and author requests, which answer with a page or a redirect.
Response(op, who) ==
  [op |-> op, who |-> who, qr_token |-> 0, status |-> 200, message |-> None,
   correct |-> FALSE, points_earned |-> 0, attempts |-> 0, total_score |-> 0,
   hint |-> None, next_location_hint |-> None, has_next |-> FALSE,
   write_attempted |-> FALSE, written |-> FALSE]

\* a session cookie that holds nothing
EmptySession ==
  [has_id |-> FALSE, student_name |-> "", has_progress |-> FALSE,
   progress |-> EmptyDict]

Init ==
  /\ hunts = EmptyDict
  /\ questions = EmptyDict
  /\ next_hunt_id = 1
  /\ next_token = 1
  /\ sessions = [p \in Participants |-> EmptySession]
  /\ submissions = << >>
  /\ resp = Response("idle", "")
  /\ pending = [p \in Participants |-> 0]

(***************************************************************************)
(* Author operations.                                                      *)
(***************************************************************************)
\* the question rows the loop over enumerate(questions, 1) adds, from entry i on
RECURSIVE CreatedQuestions(_, _, _, _, _)
CreatedQuestions(qs, tok, hunt_id, entries, i) ==
  IF i > Len(entries) THEN qs
  ELSE LET q_data == entries[i]
           text == Strip(q_data.text)
           correct_answer == Strip(q_data.answer)
       IN IF text = << >> \/ correct_answer = << >>
          THEN CreatedQuestions(qs, tok, hunt_id, entries, i + 1)
          ELSE CreatedQuestions(
                 Put(qs, tok, [hunt_id |-> hunt_id,
                               question_order |-> i,
                               question_type |-> q_data.type,
                               correct_answer |-> correct_answer,
                               hint |-> "",
                               next_location_hint |-> q_data.nextLocationHint,
                               points |-> q_data.points,
                               image_filename |-> None]),
                 tok + 1, hunt_id, entries, i + 1)

\* POST /teacher/create-hunt-with-questions
create_hunt_with_questions(entries) ==
  /\ next_hunt_id \in HuntIds
  /\ LET created == CreatedQuestions(questions, next_token, next_hunt_id, entries, 1)
         n == Cardinality(DOMAIN created) - Cardinality(DOMAIN questions)
     IN /\ (next_token .. (next_token + n - 1)) \subseteq Tokens
        /\ questions' = created
        /\ next_token' = next_token + n
  /\ hunts' = Put(hunts, next_hunt_id, [is_active |-> FALSE])
  /\ next_hunt_id' = next_hunt_id + 1
  /\ resp' = Response("idle", "")
  /\ UNCHANGED <<sessions, submissions, pending>>

\* POST /teacher/hunt/<hunt_id>/add-question
add_question(hunt_id, form) ==
  /\ hunt_id \in DOMAIN hunts
  /\ next_token \in Tokens
  /\ LET next_order == LastOrder(hunt_id) + 1
     IN questions' = Put(questions, next_token,
                         [hunt_id |-> hunt_id,
                          question_order |-> next_order,
                          question_type |-> form.question_type,
                          correct_answer |-> form.correct_answer,
                          hint |-> form.hint,
                          next_location_hint |-> form.next_location_hint,
                          points |-> form.points,
                          image_filename |-> None])
  /\ next_token' = next_token + 1
  /\ resp' = Response("idle", "")
  /\ UNCHANGED <<hunts, next_hunt_id, sessions, submissions, pending>>

\* POST /teacher/question/<question_id>/edit
edit_question(question_id, form) ==
  /\ question_id \in DOMAIN questions
  /\ questions' = [questions EXCEPT ![question_id] =
                     [@ EXCEPT !.question_type = form.question_type,
                               !.correct_answer = form.correct_answer,
                               !.hint = form.hint,
                               !.next_location_hint = form.next_location_hint,
                               !.points = form.points]]
  /\ resp' = Response("idle", "")
  /\ UNCHANGED <<hunts, next_hunt_id, next_token, sessions,
                 submissions, pending>>

\* POST /teacher/hunt/<hunt_id>/toggle-active
toggle_hunt_active(hunt_id) ==
  /\ hunt_id \in DOMAIN hunts
  /\ hunts' = [hunts EXCEPT ![hunt_id].is_active = ~@]
  /\ resp' = Response("idle", "")
  /\ UNCHANGED <<questions, next_hunt_id, next_token, sessions,
                 submissions, pending>>

\* DELETE /teacher/hunt/<hunt_id>/delete
delete_hunt(hunt_id) ==
  /\ hunt_id \in DOMAIN hunts
  /\ questions' = [t \in (DOMAIN questions) \ HuntQuestions(hunt_id) |-> questions[t]]
  /\ hunts' = [h \in (DOMAIN hunts) \ {hunt_id} |-> hunts[h]]
  /\ resp' = Response("idle", "")
  /\ UNCHANGED <<next_hunt_id, next_token, sessions, submissions, pending>>

(***************************************************************************)
(* Participant operations.                                                 *)
(***************************************************************************)
\* if 'student_id' not in session: new id, generated name, empty progress
WithIdentity(s) ==
  IF s.has_id THEN s
  ELSE [has_id |-> TRUE, student_name |-> "Student_1234", has_progress |-> TRUE,
        progress |-> EmptyDict]

\* the progress dict start_hunt creates (no 'attempts', no 'marks')
StartedProgress ==
  [current_question |-> 1, score |-> 0, completed_questions |-> << >>,
   has_attempts |-> FALSE, attempts |-> EmptyDict,
   has_marks |-> FALSE, marks |-> EmptyDict]

\* the progress dict submit_answer and submit_image create
FreshProgress(question) ==
  [current_question |-> question.question_order, score |-> 0,
   completed_questions |-> << >>,
   has_attempts |-> TRUE, attempts |-> EmptyDict,
   has_marks |-> TRUE, marks |-> EmptyDict]

\* GET /student/start-hunt/<hunt_id>
start_hunt(p, hunt_id) ==
  LET s1 == WithIdentity(sessions[p])
      found == hunt_id \in DOMAIN hunts /\ hunts[hunt_id].is_active
      s2 == IF found /\ hunt_id \notin DOMAIN s1.progress
            THEN [s1 EXCEPT !.progress = Put(@, hunt_id, StartedProgress)]
            ELSE s1
  IN /\ sessions' = [sessions EXCEPT ![p] = s2]
     /\ resp' = Response("idle", "")
     /\ UNCHANGED <<hunts, questions, next_hunt_id, next_token,
                    submissions, pending>>

\* GET /student/question/<qr_token>
student_question(p, qr_token) ==
  LET found == QuestionByToken(qr_token)
      active == found /\ hunts[questions[qr_token].hunt_id].is_active
  IN /\ sessions' = [sessions EXCEPT ![p] = IF active THEN WithIdentity(@) ELSE @]
     /\ resp' = Response("idle", "")
     /\ UNCHANGED <<hunts, questions, next_hunt_id, next_token,
                    submissions, pending>>

\* session['progress'][hunt_id_str] after the "initialize student progress"
\* block: the dict exists and has 'attempts' and 'marks'
InitializedSession(s, question) ==
  LET progress == IF question.hunt_id \in DOMAIN s.progress
                  THEN s.progress[question.hunt_id]
                  ELSE FreshProgress(question)
  IN [s EXCEPT !.has_progress = TRUE,
               !.progress = Put(s.progress, question.hunt_id,
                                [progress EXCEPT !.has_attempts = TRUE,
                                                 !.has_marks = TRUE])]

\* the point degradation: multiplier as a fraction <<numerator, denominator>>
Multiplier(current_attempts) ==
  CASE current_attempts = 1 -> <<1, 1>>
    [] current_attempts = 2 -> <<1, 2>>
    [] current_attempts = 3 -> <<1, 10>>
    [] OTHER -> <<0, 1>>

\* int(question.points * multiplier)
PointsEarned(points, current_attempts) ==
  LET m == Multiplier(current_attempts)
  IN IntTrunc(points * m[1], m[2])

\* is_correct of submit_answer
IsCorrect(question, answer) ==
  CASE question.question_type = "multiple-choice" ->
         Strip(Lower(answer)) = Strip(Lower(question.correct_answer))
    [] question.question_type = "text" ->
         Strip(Lower(answer)) = Strip(Lower(question.correct_answer))
    [] question.question_type = "image" -> TRUE
    [] OTHER -> FALSE

Completed_IfPoints(progress, question, qr_token, points_earned) ==
  IF points_earned = 0 THEN progress
  ELSE [progress EXCEPT !.completed_questions = Append(@, qr_token),
                        !.score = @ + points_earned,
                        !.marks = Put(@, qr_token, points_earned),
                        !.current_question = question.question_order + 1]

Completed_NextPosition(progress, question, qr_token, points_earned) ==
  [progress EXCEPT !.completed_questions = Append(@, qr_token),
                   !.score = @ + points_earned,
                   !.marks = Put(@, qr_token, points_earned),
                   !.current_question = @ + 1]

\* the progress dict after the "update progress" block of a correct answer
Completed(progress, question, qr_token, points_earned) ==
  [progress EXCEPT !.completed_questions = Append(@, qr_token),
                   !.score = @ + points_earned,
                   !.marks = Put(@, qr_token, points_earned),
                   !.current_question = question.question_order + 1]

\* x in list
InSeq(x, sq) == \E i \in 1..Len(sq) : sq[i] = x

AlreadyCompleted_Never(progress, qr_token) == FALSE

\* the "check if already completed" test of submit_answer
AlreadyCompleted(progress, qr_token) == InSeq(qr_token, progress.completed_questions)

CountedAttempt_Zero(progress, qr_token) == 0

CountedAttempt_Stuck(progress, qr_token) == Get(progress.attempts, qr_token, 0)

\* current_attempts: the attempts counted for the token, this one included
CountedAttempt(progress, qr_token) == Get(progress.attempts, qr_token, 0) + 1

SubmissionRow_Stale(p, s, question) ==
  LET progress == IF question.hunt_id \in DOMAIN sessions[p].progress
                  THEN sessions[p].progress[question.hunt_id]
                  ELSE FreshProgress(question)
  IN [hunt_id |-> question.hunt_id,
      student_name |-> IF s.has_id THEN s.student_name ELSE "Anonymous Student",
      total_score |-> progress.score,
      max_score |-> SumPoints(HuntQuestions(question.hunt_id)),
      completed_questions |-> Len(progress.completed_questions),
      total_questions |-> Cardinality(HuntQuestions(question.hunt_id)),
      marks |-> progress.marks,
      session |-> p]

\* the Submission row built from the hunt and the progress; session is not
\* a column: it names the session whose request wrote the row
SubmissionRow(p, s, question) ==
  LET progress == s.progress[question.hunt_id]
  IN [hunt_id |-> question.hunt_id,
      student_name |-> IF s.has_id THEN s.student_name ELSE "Anonymous Student",
      total_score |-> progress.score,
      max_score |-> SumPoints(HuntQuestions(question.hunt_id)),
      completed_questions |-> Len(progress.completed_questions),
      total_questions |-> Cardinality(HuntQuestions(question.hunt_id)),
      marks |-> progress.marks,
      session |-> p]

Saved_Retried(subs, row, commit_ok) == Append(subs, row)

\* the Submission table after db.session.add(submission); db.session.commit():
\* a failing commit is caught, printed and rolled back, and not tried again
Saved(subs, row, commit_ok) == IF commit_ok THEN Append(subs, row) ELSE subs

\* what a submission handler leaves behind: the session, the Question and
\* Submission tables and the response
Outcome(s, qs, subs, r) ==
  [session |-> s, questions |-> qs, submissions |-> subs, resp |-> r]

\* POST /api/student/submit-answer
\*   commit_ok: whether the commit of the Submission row succeeds
SubmitAnswerOutcome(p, qr_token, answer, student_name, commit_ok) ==
  LET s0 == sessions[p]
      base == Response("submit_answer", p)
  IN IF qr_token = 0 \/ answer = NoAnswer
     THEN Outcome(s0, questions, submissions,
                  [Response("rejected", p) EXCEPT !.status = 400])
     ELSE
     LET s1 == IF student_name # "" /\ s0.has_id
               THEN [s0 EXCEPT !.student_name = student_name] ELSE s0
     IN IF ~QuestionByToken(qr_token)
        THEN Outcome(s1, questions, submissions,
                     [Response("rejected", p) EXCEPT !.status = 404])
        ELSE
        LET question == questions[qr_token]
            hid == question.hunt_id
            s2 == InitializedSession(s1, question)
            progress == s2.progress[hid]
        IN IF AlreadyCompleted(progress, qr_token)
           THEN Outcome(s2, questions, submissions,
                        [base EXCEPT !.qr_token = qr_token,
                                     !.correct = TRUE, !.points_earned = 0,
                                     !.message = "Question already completed",
                                     !.total_score = progress.score])
           ELSE
           LET current_attempts == CountedAttempt(progress, qr_token)
               progress1 == [progress EXCEPT
                               !.attempts = Put(@, qr_token, current_attempts)]
               is_correct == IsCorrect(question, answer)
               fresh == is_correct /\ ~InSeq(qr_token, progress.completed_questions)
               points_earned == IF fresh
                                THEN PointsEarned(question.points, current_attempts)
                                ELSE 0
               progress2 == IF fresh
                            THEN Completed(progress1, question, qr_token, points_earned)
                            ELSE progress1
               s3 == [s2 EXCEPT !.progress[hid] = progress2]
               has_next == NextQuestions(question) # {}
               write == is_correct /\ ~has_next
           IN Outcome(s3, questions,
                      IF write
                      THEN Saved(submissions, SubmissionRow(p, s3, question), commit_ok)
                      ELSE submissions,
                      [base EXCEPT
                         !.qr_token = qr_token,
                         !.correct = is_correct,
                         !.points_earned = points_earned,
                         !.attempts = current_attempts,
                         !.total_score = progress2.score,
                         !.hint = IF ~is_correct THEN question.hint ELSE None,
                         !.next_location_hint =
                            IF is_correct THEN question.next_location_hint ELSE None,
                         !.has_next = has_next,
                         !.message = IF ~has_next /\ is_correct
                                     THEN "Congratulations!" ELSE None,
                         !.write_attempted = write,
                         !.written = write /\ commit_ok])

StoredImage_KeepFirst(question, p) ==
  IF question.image_filename = None THEN p ELSE question.image_filename

\* question.image_filename = unique_filename: assigned whatever it held
StoredImage(question, p) == p

\* POST /api/student/submit-image
\*   file: the uploaded file; the stored image_filename is named after the
\*   session that uploaded it
SubmitImageOutcome(p, file, qr_token, commit_ok) ==
  LET s0 == sessions[p]
      base == Response("submit_image", p)
  IN IF file # "ok"
     THEN Outcome(s0, questions, submissions,
                  [Response("rejected", p) EXCEPT !.status = 400])
     ELSE IF ~QuestionByToken(qr_token)
     THEN Outcome(s0, questions, submissions,
                  [Response("rejected", p) EXCEPT !.status = 404])
     ELSE
     LET question == questions[qr_token]
         hid == question.hunt_id
         s2 == InitializedSession(s0, question)
         progress == s2.progress[hid]
         current_attempts == CountedAttempt(progress, qr_token)
         progress1 == [progress EXCEPT
                         !.attempts = Put(@, qr_token, current_attempts)]
         fresh == ~InSeq(qr_token, progress.completed_questions)
         points_earned == IF fresh
                          THEN PointsEarned(question.points, current_attempts)
                          ELSE 0
         progress2 == IF fresh
                      THEN Completed(progress1, question, qr_token, points_earned)
                      ELSE progress1
         s3 == [s2 EXCEPT !.progress[hid] = progress2]
         has_next == NextQuestions(question) # {}
         write == ~has_next
     IN Outcome(s3,
                [questions EXCEPT ![qr_token].image_filename = StoredImage(question, p)],
                IF write
                THEN Saved(submissions, SubmissionRow(p, s3, question), commit_ok)
                ELSE submissions,
                [base EXCEPT
                   !.qr_token = qr_token,
                   !.correct = TRUE,
                   !.points_earned = points_earned,
                   !.attempts = current_attempts,
                   !.next_location_hint = question.next_location_hint,
                   !.has_next = has_next,
                   !.write_attempted = write,
                   !.written = write /\ commit_ok])

submit_answer(p, qr_token, answer, student_name, commit_ok) ==
  \E o \in { SubmitAnswerOutcome(p, qr_token, answer, student_name, commit_ok) } :
     /\ sessions' = [sessions EXCEPT ![p] = o.session]
     /\ submissions' = o.submissions
     /\ resp' = o.resp
     /\ UNCHANGED <<hunts, questions, next_hunt_id, next_token, pending>>

submit_image(p, file, qr_token, commit_ok) ==
  \E o \in { SubmitImageOutcome(p, file, qr_token, commit_ok) } :
     /\ sessions' = [sessions EXCEPT ![p] = o.session]
     /\ questions' = o.questions
     /\ submissions' = o.submissions
     /\ resp' = o.resp
     /\ UNCHANGED <<hunts, next_hunt_id, next_token, pending>>

\* submit_image up to db.session.commit() of question.image_filename: the
\* file checks and the question lookup (a failing one answers 400 or 404),
\* then the write of the shared column; the request stays in flight
save_image(p, file, qr_token) ==
  /\ pending[p] = 0
  /\ IF file # "ok"
     THEN /\ resp' = [Response("rejected", p) EXCEPT !.status = 400]
          /\ UNCHANGED <<questions, pending>>
     ELSE IF ~QuestionByToken(qr_token)
     THEN /\ resp' = [Response("rejected", p) EXCEPT !.status = 404]
          /\ UNCHANGED <<questions, pending>>
     ELSE /\ questions' = [questions EXCEPT ![qr_token].image_filename =
                                              StoredImage(questions[qr_token], p)]
          /\ pending' = [pending EXCEPT ![p] = qr_token]
          /\ UNCHANGED resp
  /\ UNCHANGED <<hunts, next_hunt_id, next_token, sessions, submissions>>

\* the rest of the submit_image request in flight: progress update, Submission
\* write and response (the question row is still there)
score_image(p) ==
  /\ pending[p] # 0
  /\ QuestionByToken(pending[p])
  /\ \E o \in { SubmitImageOutcome(p, "ok", pending[p], TRUE) } :
       /\ sessions' = [sessions EXCEPT ![p] = o.session]
       /\ submissions' = o.submissions
       /\ resp' = o.resp
  /\ pending' = [pending EXCEPT ![p] = 0]
  /\ UNCHANGED <<hunts, questions, next_hunt_id, next_token>>

(***************************************************************************)
(* Specifications.                                                         *)
(*   Spec      the author builds and toggles a hunt, one participant       *)
(*             plays it; no display name is posted and the Submission      *)
(*             commit succeeds.  Followed for MaxAttempts counted attempts *)
(*             per token and MaxSubmissions rows.                          *)
(***************************************************************************)
\* no attempt counter above n, no more than MaxSubmissions rows
Within(n) ==
  /\ \A p \in Participants : \A h \in DOMAIN sessions[p].progress :
       \A t \in DOMAIN sessions[p].progress[h].attempts :
          sessions[p].progress[h].attempts[t] <= n
  /\ Len(submissions) <= MaxSubmissions

Next ==
  \/ \E entries \in EntryLists(MaxEntries) : create_hunt_with_questions(entries)
  \/ \E hunt_id \in HuntIds, form \in FormInputs : add_question(hunt_id, form)
  \/ \E hunt_id \in HuntIds : toggle_hunt_active(hunt_id)
  \/ \E hunt_id \in HuntIds : start_hunt("s1", hunt_id)
  \/ \E qr_token \in TokenInputs, answer \in AnswerInputs \cup {NoAnswer} :
       submit_answer("s1", qr_token, answer, "", TRUE) /\ Within(MaxAttempts)'
  \/ \E file \in FileInputs, qr_token \in TokenInputs :
       submit_image("s1", file, qr_token, TRUE) /\ Within(MaxAttempts)'

Spec == Init /\ [][Next]_vars

(***************************************************************************)
(*   SpecPoints   the degradation schedule: a two-question hunt whose      *)
(*             first question is worth any of -MaxPoints..MaxPoints (the   *)
(*             author routes store int(points) unvalidated), played after  *)
(*             0..MaxPrior wrong answers to it.                            *)
(***************************************************************************)
PointInputs == (-MaxPoints)..MaxPoints

\* the hunt create_hunt_with_questions builds from a text entry worth pts
\* and an image entry
PointsHunt(pts) ==
  CreatedQuestions(EmptyDict, 1, 1,
    << [type |-> "text", text |-> <<"q">>, answer |-> <<" ", "A">>,
        nextLocationHint |-> "gym", points |-> pts],
       [type |-> "image", text |-> <<"q">>, answer |-> <<"x">>,
        nextLocationHint |-> "", points |-> 25] >>, 1)

\* the session after k wrong answers to token 1 (none: no request yet)
AfterWrong(qs, k) ==
  IF k = 0 THEN EmptySession
  ELSE [has_id |-> FALSE, student_name |-> "", has_progress |-> TRUE,
        progress |-> Put(EmptyDict, 1,
                         [FreshProgress(qs[1]) EXCEPT !.attempts = Put(@, 1, k)])]

InitPoints ==
  \E pts \in PointInputs, k \in 0..MaxPrior :
    /\ hunts = Put(EmptyDict, 1, [is_active |-> TRUE])
    /\ questions = PointsHunt(pts)
    /\ next_hunt_id = 2
    /\ next_token = 3
    /\ sessions = [p \in Participants |->
                     IF p = "s1" THEN AfterWrong(PointsHunt(pts), k) ELSE EmptySession]
    /\ submissions = << >>
    /\ resp = Response("idle", "")
    /\ pending = [p \in Participants |-> 0]

NextPoints ==
  \/ \E qr_token \in Tokens, answer \in AnswerInputs :
       submit_answer("s1", qr_token, answer, "", TRUE) /\ Within(MaxPrior + 1)'
  \/ \E qr_token \in Tokens :
       submit_image("s1", "ok", qr_token, TRUE) /\ Within(MaxPrior + 1)'

SpecPoints == InitPoints /\ [][NextPoints]_vars

(***************************************************************************)
(*   SpecNames    as Spec, with display names posted; followed for one     *)
(*             counted attempt per token.                                  *)
(***************************************************************************)
NextNames ==
  \/ \E entries \in EntryLists(MaxEntries) : create_hunt_with_questions(entries)
  \/ \E hunt_id \in HuntIds : toggle_hunt_active(hunt_id)
  \/ \E hunt_id \in HuntIds : start_hunt("s1", hunt_id)
  \/ \E qr_token \in TokenInputs, answer \in AnswerInputs \cup {NoAnswer},
        student_name \in NameInputs :
       submit_answer("s1", qr_token, answer, student_name, TRUE) /\ Within(1)'
  \/ \E file \in FileInputs, qr_token \in TokenInputs :
       submit_image("s1", file, qr_token, TRUE) /\ Within(1)'

SpecNames == Init /\ [][NextNames]_vars

(***************************************************************************)
(*   SpecPlay     the author builds and toggles a hunt, one participant    *)
(*             plays it with requests that pass validation.  The           *)
(*             participant either never opens a student page (no identity  *)
(*             in the session) or has opened the dashboard before the      *)
(*             hunt exists (identity, empty progress) and uses start_hunt. *)
(***************************************************************************)
InitPlay ==
  /\ hunts = EmptyDict
  /\ questions = EmptyDict
  /\ next_hunt_id = 1
  /\ next_token = 1
  /\ \E s \in { EmptySession, WithIdentity(EmptySession) } :
        sessions = [p \in Participants |-> IF p = "s1" THEN s ELSE EmptySession]
  /\ submissions = << >>
  /\ resp = Response("idle", "")
  /\ pending = [p \in Participants |-> 0]

NextPlay ==
  \/ \E entries \in EntryLists(MaxEntries) : create_hunt_with_questions(entries)
  \/ \E hunt_id \in HuntIds, form \in FormInputs : add_question(hunt_id, form)
  \/ \E hunt_id \in HuntIds : toggle_hunt_active(hunt_id)
  \/ \E hunt_id \in HuntIds : sessions["s1"].has_id /\ start_hunt("s1", hunt_id)
  \/ \E qr_token \in Tokens, answer \in AnswerInputs :
       submit_answer("s1", qr_token, answer, "", TRUE) /\ Within(MaxAttempts)'
  \/ \E qr_token \in Tokens :
       submit_image("s1", "ok", qr_token, TRUE) /\ Within(MaxAttempts)'

SpecPlay == InitPlay /\ [][NextPlay]_vars

(***************************************************************************)
(*   SpecCommit   one participant plays a hunt while the commit of the     *)
(*             Submission row may fail.                                    *)
(***************************************************************************)
NextCommit ==
  \/ \E entries \in EntryLists(MaxEntries) : create_hunt_with_questions(entries)
  \/ \E qr_token \in Tokens, answer \in AnswerInputs, commit_ok \in BOOLEAN :
       submit_answer("s1", qr_token, answer, "", commit_ok) /\ Within(MaxAttempts)'
  \/ \E qr_token \in Tokens, commit_ok \in BOOLEAN :
       submit_image("s1", "ok", qr_token, commit_ok) /\ Within(MaxAttempts)'

SpecCommit == Init /\ [][NextCommit]_vars

(***************************************************************************)
(*   SpecAuthor   the author builds, extends, edits and deletes a hunt     *)
(*             while one participant plays it; every point value is        *)
(*             non-negative.  Followed for one counted attempt per token.  *)
(***************************************************************************)
\* the question form the author of SpecAuthor posts: a step worth 3 points
EditInputs ==
  { [question_type |-> "text", correct_answer |-> <<"b">>,
     hint |-> "", next_location_hint |-> "", points |-> 3] }

NextAuthor ==
  \/ \E entries \in EntryLists(MaxEntries) : create_hunt_with_questions(entries)
  \/ \E hunt_id \in HuntIds, form \in EditInputs : add_question(hunt_id, form)
  \/ \E question_id \in Tokens, form \in EditInputs : edit_question(question_id, form)
  \/ \E hunt_id \in HuntIds : delete_hunt(hunt_id)
  \/ \E qr_token \in Tokens, answer \in AnswerInputs :
       submit_answer("s1", qr_token, answer, "", TRUE) /\ Within(1)'
  \/ \E qr_token \in Tokens :
       submit_image("s1", "ok", qr_token, TRUE) /\ Within(1)'

SpecAuthor == Init /\ [][NextAuthor]_vars

(***************************************************************************)
(*   SpecRace     two participants play an active two-question hunt; their *)
(*             submit-image requests interleave at the commit of the       *)
(*             question's image_filename.  A participant sends one request *)
(*             at a time.                                                  *)
(***************************************************************************)
InitRace ==
  /\ hunts = Put(EmptyDict, 1, [is_active |-> TRUE])
  /\ questions = PointsHunt(10)
  /\ next_hunt_id = 2
  /\ next_token = 3
  /\ sessions = [p \in Participants |-> EmptySession]
  /\ submissions = << >>
  /\ resp = Response("idle", "")
  /\ pending = [p \in Participants |-> 0]

NextRace ==
  \/ \E p \in Participants, file \in FileInputs, qr_token \in TokenInputs :
       save_image(p, file, qr_token)
  \/ \E p \in Participants : score_image(p) /\ Within(MaxAttempts)'
  \/ \E p \in Participants, qr_token \in Tokens, answer \in AnswerInputs :
       /\ pending[p] = 0
       /\ submit_answer(p, qr_token, answer, "", TRUE) /\ Within(MaxAttempts)'

SpecRace == InitRace /\ [][NextRace]_vars

(***************************************************************************)
(* Properties.                                                             *)
(*                                                                         *)
(* A property of one call is stated over the outcome of the handler in     *)
(* every reachable state and for every request; its witness is a state in  *)
(* which such a call has just been answered (resp).                        *)
(***************************************************************************)
\* the participant whose requests the specifications follow
Players == {"s1"}

\* the participant has the token in completed
Done(s, t) ==
  /\ questions[t].hunt_id \in DOMAIN s.progress
  /\ InSeq(t, s.progress[questions[t].hunt_id].completed_questions)

\* the Progress a call for token t starts from: the stored one, or the one
\* created lazily by the call (at the step's position, nothing scored)
Before(s, t) ==
  IF questions[t].hunt_id \in DOMAIN s.progress
  THEN s.progress[questions[t].hunt_id]
  ELSE [current_question |-> questions[t].question_order, score |-> 0,
        completed_questions |-> << >>, attempts |-> EmptyDict, marks |-> EmptyDict]

\* the Progress of the token's hunt in an outcome
After(o, t) == o.session.progress[questions[t].hunt_id]

\* the progress of the other hunts is untouched
OthersKept(s, o, t) ==
  \A h \in (DOMAIN s.progress) \ {questions[t].hunt_id} :
     h \in DOMAIN o.session.progress /\ o.session.progress[h] = s.progress[h]

\* the highest position of the token's sequence
MaxPosition(t) ==
  CHOOSE m \in { questions[x].question_order : x \in HuntQuestions(questions[t].hunt_id) } :
     \A x \in HuntQuestions(questions[t].hunt_id) : questions[x].question_order <= m

\* decay(n) as a fraction
Decay(n) == IF n = 1 THEN <<1, 1>> ELSE IF n = 2 THEN <<1, 2>>
            ELSE IF n = 3 THEN <<1, 10>> ELSE <<0, 1>>

\* e = floor(x / den)
IsFloor(e, x, den) == e * den <= x /\ x < (e + 1) * den

\* e = x / den rounded toward zero
IsTruncation(e, x, den) ==
  IF x >= 0 THEN e * den <= x /\ x < (e + 1) * den
  ELSE (e - 1) * den < x /\ x <= e * den

\* the last request was a submission answered 200 for a step not completed before
Answered(op) ==
  resp.op = op /\ resp.status = 200 /\ resp.message # "Question already completed"

\* the Progress of the session and hunt of the last response
RespProgress == sessions[resp.who].progress[questions[resp.qr_token].hunt_id]

----------------------------------------------------------------------------
\* C1: a submit_answer call for a token whose hunt has is_active = false is
\* rejected: no such call is answered 200, none is scored.
C1_InactiveHuntRejected ==
  (resp.op = "submit_answer" /\ resp.qr_token \in DOMAIN questions)
     => hunts[questions[resp.qr_token].hunt_id].is_active

\* C2: submit_answer with a token already in completed returns correct = true
\* and points_earned = 0, whatever the answer, and leaves score, attempts,
\* completed, marks and position (and the Submission table) as they were.
C2_ReplayChangesNothing ==
  \A p \in Players, t \in DOMAIN questions, answer \in AnswerInputs,
     student_name \in NameInputs, commit_ok \in BOOLEAN :
     Done(sessions[p], t) =>
        \A o \in { SubmitAnswerOutcome(p, t, answer, student_name, commit_ok) } :
           /\ o.resp.status = 200
           /\ o.resp.correct
           /\ o.resp.points_earned = 0
           /\ o.resp.total_score = Before(sessions[p], t).score
           /\ After(o, t) = Before(sessions[p], t)
           /\ OthersKept(sessions[p], o, t)
           /\ o.submissions = submissions

\* a replay has been answered for a step with a counted attempt and a mark
C2_Witness ==
  /\ resp.op = "submit_answer"
  /\ resp.message = "Question already completed"
  /\ resp.correct /\ resp.points_earned = 0
  /\ RespProgress.attempts[resp.qr_token] >= 1
  /\ RespProgress.marks[resp.qr_token] > 0

\* C3 (as claimed): a correct answer accepted for a step not yet completed on
\* its n-th counted attempt earns floor(points * decay(n)), for every point
\* value the author routes store.
C3_PointsAreFloor ==
  (Answered("submit_answer") /\ resp.correct) =>
     IsFloor(resp.points_earned,
             questions[resp.qr_token].points * Decay(resp.attempts)[1],
             Decay(resp.attempts)[2])

\* C3 (amended): it earns points * decay(n) rounded toward zero, which is
\* floor(points * decay(n)) when points >= 0; n is the number of attempts
\* counted for the token, this one included.
C3_PointsAreTruncated ==
  \A p \in Players, t \in DOMAIN questions, answer \in AnswerInputs :
     ~Done(sessions[p], t) =>
        \A oa \in { SubmitAnswerOutcome(p, t, answer, "", TRUE) },
           oi \in { SubmitImageOutcome(p, "ok", t, TRUE) } :
        LET n == Get(Before(sessions[p], t).attempts, t, 0) + 1
            x == questions[t].points * Decay(n)[1]
        IN /\ oa.resp.correct =>
                /\ IsTruncation(oa.resp.points_earned, x, Decay(n)[2])
                /\ questions[t].points >= 0 =>
                      IsFloor(oa.resp.points_earned, x, Decay(n)[2])
                /\ oa.resp.attempts = n
           /\ IsTruncation(oi.resp.points_earned, x, Decay(n)[2])
           /\ questions[t].points >= 0 => IsFloor(oi.resp.points_earned, x, Decay(n)[2])
           /\ oi.resp.attempts = n

\* a step worth -5 has been answered correctly on the second attempt: -2
C3_Witness ==
  /\ Answered("submit_answer")
  /\ resp.correct /\ resp.attempts = 2
  /\ questions[resp.qr_token].points = -5
  /\ resp.points_earned = -2
  /\ RespProgress.marks[resp.qr_token] = -2

\* C4: a correct answer for a step not in completed, at any attempt count,
\* adds the token to completed, adds points_earned to score, sets
\* marks[token] = points_earned and sets position = the step's position + 1.
C4_CorrectAnswerCompletes ==
  \A p \in Players, t \in DOMAIN questions, answer \in AnswerInputs,
     student_name \in NameInputs, commit_ok \in BOOLEAN :
     ~Done(sessions[p], t) =>
     \A o \in { SubmitAnswerOutcome(p, t, answer, student_name, commit_ok) } :
        o.resp.correct =>
           /\ InSeq(t, After(o, t).completed_questions)
           /\ After(o, t).score = Before(sessions[p], t).score + o.resp.points_earned
           /\ t \in DOMAIN After(o, t).marks
           /\ After(o, t).marks[t] = o.resp.points_earned
           /\ After(o, t).current_question = questions[t].question_order + 1

\* a step worth points has been completed for 0 points on a 4th or later attempt
C4_Witness ==
  /\ Answered("submit_answer")
  /\ resp.correct /\ resp.attempts >= 4 /\ resp.points_earned = 0
  /\ questions[resp.qr_token].points # 0
  /\ InSeq(resp.qr_token, RespProgress.completed_questions)
  /\ RespProgress.marks[resp.qr_token] = 0

\* C5 (as claimed): after a correct answer for a step not in completed, for
\* any token of the sequence, position is one greater than before the call
\* and the token is in completed.
C5_PositionAdvancesByOne ==
  [][\A p \in Players, t \in DOMAIN questions :
       (/\ resp'.op = "submit_answer" /\ resp'.who = p /\ resp'.qr_token = t
        /\ resp'.correct
        /\ questions[t].hunt_id \in DOMAIN sessions[p].progress
        /\ ~Done(sessions[p], t))
       => /\ sessions'[p].progress[questions[t].hunt_id].current_question
               = sessions[p].progress[questions[t].hunt_id].current_question + 1
          /\ InSeq(t, sessions'[p].progress[questions[t].hunt_id].completed_questions)]_vars

\* C5 (amended): after such an answer the token is in completed and position
\* is the step's position + 1; that is one more than before the call exactly
\* when the step's position was the Progress position before the call.
C5_PositionFollowsStep ==
  \A p \in Players, t \in DOMAIN questions, answer \in AnswerInputs :
     ~Done(sessions[p], t) =>
     \A o \in { SubmitAnswerOutcome(p, t, answer, "", TRUE) } :
        o.resp.correct =>
           /\ InSeq(t, After(o, t).completed_questions)
           /\ After(o, t).current_question = questions[t].question_order + 1
           /\ (After(o, t).current_question = Before(sessions[p], t).current_question + 1)
                 <=> (questions[t].question_order = Before(sessions[p], t).current_question)

\* the step of position 1 has been answered after the step of position 2:
\* position went from 3 to 2
C5_Witness ==
  /\ Answered("submit_answer")
  /\ resp.correct
  /\ Len(RespProgress.completed_questions) = 2
  /\ RespProgress.completed_questions[2] = resp.qr_token
  /\ questions[resp.qr_token].question_order = 1
  /\ questions[RespProgress.completed_questions[1]].question_order = 2
  /\ RespProgress.current_question = 2

\* C6: an incorrect submit_answer changes nothing in the Progress but
\* attempts[token], which grows by exactly 1; points_earned is 0 and the
\* result carries the step's hint and no next-step hint.
C6_WrongAnswerCountsOnly ==
  \A p \in Players, t \in DOMAIN questions, answer \in AnswerInputs,
     student_name \in NameInputs, commit_ok \in BOOLEAN :
     ~Done(sessions[p], t) =>
     \A o \in { SubmitAnswerOutcome(p, t, answer, student_name, commit_ok) },
        b \in { Before(sessions[p], t) } :
        ~o.resp.correct =>
           /\ o.resp.status = 200
           /\ After(o, t).score = b.score
           /\ After(o, t).completed_questions = b.completed_questions
           /\ After(o, t).marks = b.marks
           /\ After(o, t).current_question = b.current_question
           /\ DOMAIN After(o, t).attempts = (DOMAIN b.attempts) \cup {t}
           /\ \A x \in DOMAIN After(o, t).attempts :
                 After(o, t).attempts[x] = Get(b.attempts, x, 0) + (IF x = t THEN 1 ELSE 0)
           /\ OthersKept(sessions[p], o, t)
           /\ o.submissions = submissions
           /\ o.resp.points_earned = 0
           /\ o.resp.hint = questions[t].hint
           /\ o.resp.next_location_hint = None

\* a second wrong answer has been answered with the step's hint, after
\* another step was completed
C6_Witness ==
  /\ Answered("submit_answer")
  /\ ~resp.correct /\ resp.attempts = 2 /\ resp.points_earned = 0
  /\ resp.hint = "look up" /\ resp.next_location_hint = None
  /\ RespProgress.attempts[resp.qr_token] = 2
  /\ Len(RespProgress.completed_questions) = 1
  /\ ~InSeq(resp.qr_token, RespProgress.completed_questions)

\* C7: a submission call writes a Submission row if and only if it submits a
\* correct answer for the step whose position is the maximum of its sequence.
C7_RecordIffCorrectOnLastStep ==
  (Answered("submit_answer") \/ Answered("submit_image")) =>
     (resp.written <=>
        (resp.correct /\ questions[resp.qr_token].question_order = MaxPosition(resp.qr_token)))

\* the rows a session wrote for a hunt
RowsOf(p, hunt_id) ==
  { i \in 1..Len(submissions) :
      submissions[i].session = p /\ submissions[i].hunt_id = hunt_id }

\* C8: within one Progress lifetime (here: a session whose progress was never
\* reset by a new identity) at most one Submission row is written for the
\* participant and the sequence.
C8_AtMostOneRecord ==
  \A p \in Players, hunt_id \in HuntIds :
     ~sessions[p].has_id => Cardinality(RowsOf(p, hunt_id)) <= 1

\* C9: from every reachable state and for every token, submit_image leaves
\* the Progress and the Submission table that submit_answer leaves for an
\* answer judged correct.
C9_ImageIsAnswerForcedCorrect ==
  \A p \in Players, t \in DOMAIN questions :
     \A oa \in { SubmitAnswerOutcome(p, t, questions[t].correct_answer, "", TRUE) },
        oi \in { SubmitImageOutcome(p, "ok", t, TRUE) } :
        oa.resp.correct =>
           /\ oi.session.progress = oa.session.progress
           /\ oi.submissions = oa.submissions

\* C10: a submission rejected with 400 (missing field) or 404 (unknown token)
\* has mutated nothing: the session (Progress, display name), the stored
\* image_filename of every question and the Submission table are unchanged.
C10_RejectedMutatesNothing ==
  [][resp'.op = "rejected" => UNCHANGED <<sessions, questions, submissions>>]_vars

\* C11: when the commit of the Submission row fails during a correct terminal
\* submit_answer, the call is still answered 200 with correct = true and the
\* points earned, the Progress keeps every mutation of the call (completed,
\* score, marks, position, attempts: it is the Progress the call leaves when
\* the commit succeeds), and no row is in the table after the call.
C11_WriteFailureNotPropagated ==
  \A p \in Players, t \in DOMAIN questions, answer \in AnswerInputs :
     ~Done(sessions[p], t) =>
     \A o \in { SubmitAnswerOutcome(p, t, answer, "", FALSE) },
        ok \in { SubmitAnswerOutcome(p, t, answer, "", TRUE) },
        b \in { Before(sessions[p], t) } :
        o.resp.write_attempted =>
           /\ o.resp.status = 200
           /\ o.resp.correct
           /\ o.resp.points_earned = ok.resp.points_earned
           /\ o.resp.total_score = b.score + o.resp.points_earned
           /\ o.session = ok.session
           /\ InSeq(t, After(o, t).completed_questions)
           /\ After(o, t).score = b.score + o.resp.points_earned
           /\ After(o, t).marks[t] = o.resp.points_earned
           /\ After(o, t).current_question = questions[t].question_order + 1
           /\ After(o, t).attempts[t] = Get(b.attempts, t, 0) + 1
           /\ ~o.resp.written
           /\ o.submissions = submissions
           /\ ok.submissions # submissions

\* a correct answer to the last step has been answered with its points while
\* the commit failed: the step is completed and scored, the table is empty
C11_Witness ==
  /\ Answered("submit_answer")
  /\ resp.correct /\ resp.write_attempted /\ ~resp.written
  /\ resp.points_earned > 0
  /\ resp.total_score = RespProgress.score
  /\ InSeq(resp.qr_token, RespProgress.completed_questions)
  /\ RespProgress.marks[resp.qr_token] = resp.points_earned
  /\ submissions = << >>

\* C12: after any sequence of author operations the question_order values of
\* a hunt's questions are pairwise distinct and are exactly 1..n, n being the
\* number of its questions.
C12_OrdersContiguous ==
  \A h \in DOMAIN hunts :
     /\ \A x, y \in HuntQuestions(h) :
           x # y => questions[x].question_order # questions[y].question_order
     /\ { questions[x].question_order : x \in HuntQuestions(h) }
           = 1..Cardinality(HuntQuestions(h))

\* C13: in every reachable state every token in the completed list of a
\* Progress is the token of a question that belongs to the hunt the Progress
\* is keyed by.
C13_CompletedBelongToSequence ==
  \A p \in Participants : \A h \in DOMAIN sessions[p].progress :
     \A i \in 1..Len(sessions[p].progress[h].completed_questions) :
        sessions[p].progress[h].completed_questions[i] \in HuntQuestions(h)

\* C18: in every Submission row ever written total_score <= max_score and
\* completed_questions <= total_questions, all point values being
\* non-negative, whatever the author adds or edits between the answers.
C18_ScoreWithinMax ==
  \A i \in 1..Len(submissions) :
     /\ submissions[i].total_score <= submissions[i].max_score
     /\ submissions[i].completed_questions <= submissions[i].total_questions

\* C14: in every reachable Progress, whichever handler created it, every
\* token in completed or among the keys of marks is a key of attempts, with
\* attempts[token] >= 1.
C14_AttemptsBeforeCompletion ==
  \A p \in Participants : \A h \in DOMAIN sessions[p].progress :
     \A t \in { sessions[p].progress[h].completed_questions[i] :
                   i \in 1..Len(sessions[p].progress[h].completed_questions) }
               \cup DOMAIN sessions[p].progress[h].marks :
        /\ sessions[p].progress[h].has_attempts
        /\ t \in DOMAIN sessions[p].progress[h].attempts
        /\ sessions[p].progress[h].attempts[t] >= 1

\* in a session that went through start_hunt, an image step has been
\* completed on its first attempt and then another step by submit_answer on
\* its second attempt: both are keys of attempts and of marks
C14_Witness ==
  /\ sessions["s1"].has_id
  /\ resp.op = "submit_answer" /\ resp.correct /\ resp.attempts = 2
  /\ Len(RespProgress.completed_questions) = 2
  /\ RespProgress.completed_questions[2] = resp.qr_token
  /\ DOMAIN RespProgress.marks = DOMAIN RespProgress.attempts
  /\ RespProgress.attempts[RespProgress.completed_questions[1]] = 1
  /\ questions[RespProgress.completed_questions[1]].question_type = "image"
  /\ RespProgress.attempts[resp.qr_token] = 2

\* the points of the questions of hunt h among the tokens 1..n, added up
RECURSIVE PointsUpTo(_, _)
PointsUpTo(h, n) ==
  IF n = 0 THEN 0
  ELSE PointsUpTo(h, n - 1)
       + (IF n \in DOMAIN questions /\ questions[n].hunt_id = h
          THEN questions[n].points ELSE 0)

\* row r is the snapshot of the Progress of token t's hunt in outcome o
IsSnapshot(r, o, t) ==
  /\ r.hunt_id = questions[t].hunt_id
  /\ r.total_score = After(o, t).score
  /\ r.completed_questions = Len(After(o, t).completed_questions)
  /\ r.marks = After(o, t).marks
  /\ r.total_questions = Cardinality({ x \in DOMAIN questions :
                                         questions[x].hunt_id = questions[t].hunt_id })
  /\ r.max_score = PointsUpTo(questions[t].hunt_id, next_token - 1)

\* C15: the Submission row a call writes is a snapshot of the Progress after
\* that call: total_score is its score, completed_questions the length of
\* completed, marks its marks, total_questions the number of questions of the
\* hunt and max_score the sum of their points.
C15_RecordIsSnapshot ==
  \A p \in Players, t \in DOMAIN questions, answer \in AnswerInputs :
     \A oa \in { SubmitAnswerOutcome(p, t, answer, "", TRUE) },
        oi \in { SubmitImageOutcome(p, "ok", t, TRUE) } :
        /\ oa.resp.written =>
              /\ Len(oa.submissions) = Len(submissions) + 1
              /\ SubSeq(oa.submissions, 1, Len(submissions)) = submissions
              /\ IsSnapshot(oa.submissions[Len(oa.submissions)], oa, t)
        /\ oi.resp.written =>
              /\ Len(oi.submissions) = Len(submissions) + 1
              /\ SubSeq(oi.submissions, 1, Len(submissions)) = submissions
              /\ IsSnapshot(oi.submissions[Len(oi.submissions)], oi, t)

\* two 10-point steps, wrong then right on step 1, right on step 2: the row
\* has total_score 15, max_score 20, completed_questions 2, total_questions 2
C15_Witness ==
  /\ Answered("submit_answer") /\ resp.correct /\ resp.written
  /\ resp.attempts = 1 /\ resp.points_earned = 10 /\ resp.total_score = 15
  /\ Len(submissions) = 1
  /\ submissions[1].total_score = 15 /\ submissions[1].max_score = 20
  /\ submissions[1].completed_questions = 2
  /\ submissions[1].total_questions = 2
  /\ submissions[1].marks = RespProgress.marks
  /\ RespProgress.score = 15
  /\ RespProgress.attempts = [x \in {1, 2} |-> IF x = resp.qr_token THEN 1 ELSE 2]
  /\ RespProgress.marks = [x \in {1, 2} |-> IF x = resp.qr_token THEN 10 ELSE 5]

\* C16: a multiple-choice or text step enters a participant's completed list
\* only by a submit_answer call whose answer was judged correct (for these
\* types: equal to the step's answer after lower-casing and trimming); no
\* other call completes such a step.
C16_CompletedOnlyByMatchingAnswer ==
  [][\A p \in Players, t \in DOMAIN questions :
       (/\ questions[t].question_type \in {"multiple-choice", "text"}
        /\ ~Done(sessions[p], t)
        /\ questions[t].hunt_id \in DOMAIN sessions'[p].progress
        /\ InSeq(t, sessions'[p].progress[questions[t].hunt_id].completed_questions))
       => (resp'.op = "submit_answer" /\ resp'.who = p /\ resp'.qr_token = t
           /\ resp'.correct)]_vars

\* C17: the write of a submit-image request to the step's image_filename is
\* unguarded: whatever the column held, and whoever else has a request for
\* the step in flight, it holds the reference of the request that wrote
\* last; and no step of a participant's submit-image request changes the
\* session (Progress) of another participant.
C17_LastImageWriteWins ==
  [][\A p \in Participants :
       /\ (pending[p] = 0 /\ pending'[p] # 0)
             => /\ questions'[pending'[p]].image_filename = p
                /\ \A q \in Participants \ {p} : sessions'[q] = sessions[q]
       /\ (pending[p] # 0 /\ pending'[p] = 0)
             => /\ Done(sessions'[p], pending[p])
                /\ questions' = questions
                /\ \A q \in Participants \ {p} : sessions'[q] = sessions[q]]_vars

\* both participants have completed the image step with one upload each; the
\* request of s2 wrote first and was answered last, so that the stored
\* reference is that of s1 and the upload of s2 is referenced nowhere
C17_Witness ==
  /\ \A p \in Participants :
        /\ 1 \in DOMAIN sessions[p].progress
        /\ InSeq(2, sessions[p].progress[1].completed_questions)
        /\ sessions[p].progress[1].attempts[2] = 1
        /\ sessions[p].progress[1].marks[2] = 25
        /\ pending[p] = 0
  /\ questions[2].question_type = "image"
  /\ questions[2].image_filename = "s1"
  /\ resp.op = "submit_image" /\ resp.who = "s2" /\ resp.qr_token = 2

====
